---------------------------- MODULE Spec2Model ----------------------------
(***************************************************************************)
(* A model of memories_download.py: the three-stage pipeline that          *)
(* downloads the rows of an HTML export into a flat drop directory         *)
(* (stage1_download), resolves the downloaded archives into a merged JPEG  *)
(* or an extracted folder (stage2_merge_and_extract) and moves every       *)
(* top-level entry under <year>/<month>/<category>/ (stage3_organize).     *)
(*                                                                         *)
(* File names are records of the parts the code builds them from; the      *)
(* file system is the set of entries of the drop directory (drop) and the  *)
(* set of entries below the year folders (tree).                           *)
(***************************************************************************)
EXTENDS Integers, Sequences, FiniteSets, TLC

VARIABLES
    stage,      \* which part of main() is running
    nrows,      \* number of data rows of the export (rows[1:])
    k,          \* stage 1: index of the next row to handle
    queue,      \* stage 2 / stage 3: the listing still to be handled
    drop,       \* top-level entries of MEMORIES_DIR that are no year folder
    tree,       \* entries below MEMORIES_DIR/<YYYY>/<MM - Month>/<category>/
    rowlog,     \* history: what stage 1 did with each row
    ziplog,     \* history: what stage 2 did with each archive of its listing
    lastmove,   \* history: the last rename stage 3 performed
    pass,       \* number of stage3_organize passes started since main() began
    runs,       \* number of times main() was started
    names,      \* pure-function check: an archive's entry list
    picked      \* pure-function check: the result computed for names

vars == <<stage, nrows, k, queue, drop, tree, rowlog, ziplog, lastmove,
          pass, runs, names, picked>>

pipevars == <<stage, nrows, k, queue, drop, tree, rowlog, ziplog, lastmove,
              pass, runs>>

--------------------------------------------------------------------------
(* Bounds of the model *)

MaxRows == 2

MaxMembers == 2

MaxNames == 3

MaxRuns == 3

--------------------------------------------------------------------------
(* Strings: str.lower() and Path.suffix on the strings the model uses *)

lower(s) ==
    CASE s = ".PNG" -> ".png"
      [] s = ".JPG" -> ".jpg"
      [] s = ".MP4" -> ".mp4"
      [] s = ".MOV" -> ".mov"
      [] s = ".ZIP" -> ".zip"
      [] s = "MEDIA" -> "media"
      [] s = "Image" -> "image"
      [] s = "Snap Video" -> "snap video"
      [] s = "https://cdn/A.ZIP" -> "https://cdn/a.zip"
      [] OTHER -> s

IMAGE_EXTS == {".jpg", ".jpeg", ".png", ".heic", ".gif", ".webp"}

VIDEO_EXTS == {".mp4", ".mov", ".m4v", ".avi", ".hevc", ".mkv"}

\* The lower-case stems of the model that hold the substring "media".
HoldsMedia == {"memory_media", "media", "media_clip"}

\* An archive entry name: Path(n).stem and Path(n).suffix, and whether the
\* entry is a directory (ZipInfo.is_dir()).
Entry(stem, ext) == [stem |-> stem, ext |-> ext, dir |-> FALSE]

NoEntry == [stem |-> "<None>", ext |-> "", dir |-> FALSE]

is_image_filename(n) == lower(n.ext) \in IMAGE_EXTS

is_video_filename(n) == lower(n.ext) \in VIDEO_EXTS

\* "media" in n.lower()
ContainsMedia(n) == lower(n.stem) \in HoldsMedia

\* n.lower().endswith(".png")
EndsWithPng(n) == lower(n.ext) = ".png"

--------------------------------------------------------------------------
(* Stage 2, pure part: classification and base / overlay selection *)

RECURSIVE any_video(_)
any_video(ns) ==
    IF ns = <<>> THEN FALSE
    ELSE IF is_video_filename(Head(ns)) THEN TRUE
    ELSE any_video(Tail(ns))

\* A faulty variant that looks at the first entry only; the classification
\* property must tell it from has_video.
has_video_first_entry(ns) == ns # <<>> /\ is_video_filename(Head(ns))

\* any(is_video_filename(n) for n in names)
has_video(ns) == any_video(ns)

\* The branch of stage2_merge_and_extract the archive takes.
ArchivePath(ns) == IF has_video(ns) THEN "video" ELSE "image"

\* A faulty variant whose overlay candidates are not kept apart from the
\* base; the selection property must tell it from pick_base_and_overlay.
pick_base_and_overlay_self_overlay(ns) ==
    LET image_names == SelectSeq(ns, is_image_filename)
        base_candidates == SelectSeq(image_names, ContainsMedia)
        non_png == SelectSeq(image_names, LAMBDA n : ~EndsWithPng(n))
        base_name ==
            IF base_candidates = <<>>
            THEN IF non_png # <<>> THEN Head(non_png) ELSE Head(image_names)
            ELSE Head(base_candidates)
        overlay_candidates == SelectSeq(image_names, EndsWithPng)
    IN  IF image_names = <<>>
        THEN [base |-> NoEntry, overlay |-> NoEntry]
        ELSE [base |-> base_name,
              overlay |-> IF overlay_candidates # <<>>
                          THEN Head(overlay_candidates) ELSE NoEntry]

pick_base_and_overlay(ns) ==
    LET image_names == SelectSeq(ns, is_image_filename)
        base_candidates == SelectSeq(image_names, ContainsMedia)
        non_png == SelectSeq(image_names, LAMBDA n : ~EndsWithPng(n))
        base_name ==
            IF base_candidates = <<>>
            THEN IF non_png # <<>> THEN Head(non_png) ELSE Head(image_names)
            ELSE Head(base_candidates)
        overlay_candidates ==
            SelectSeq(image_names, LAMBDA n : EndsWithPng(n) /\ n # base_name)
    IN  IF image_names = <<>>
        THEN [base |-> NoEntry, overlay |-> NoEntry]
        ELSE [base |-> base_name,
              overlay |-> IF overlay_candidates # <<>>
                          THEN Head(overlay_candidates) ELSE NoEntry]

--------------------------------------------------------------------------
(* Time.  A point in time is a small integer; 1 is the capture instant the  *)
(* export's date cells spell out, WallTimes are readings of the wall clock  *)
(* while the program runs.                                                  *)

CaptureTimes == {1}

\* datetime.now() as parse_date reads it in the run-th run of main(): the
\* clock has moved on between two runs.
WallTimes(run) == {10 + run}

\* The modification time a write leaves on a file until os.utime resets it:
\* the wall clock at the write, later than any reading parse_date took.
WriteTimes == {20}

\* dt.year and dt.month of a point in time: the captures of the export are
\* of May 2023, the runs of the program of November and December 2026.
DateOf(t) ==
    IF t < 10 THEN [year |-> 2023, month |-> 5]
    ELSE IF t < 20 THEN [year |-> 2026, month |-> 11]
    ELSE [year |-> 2026, month |-> 12]

\* A date cell: the instant it spells (0 when it spells none) and whether a
\* timezone designator follows the seconds.
DateTexts ==
    { [instant |-> t, zone |-> z] : t \in CaptureTimes, z \in BOOLEAN }
        \cup { [instant |-> 0, zone |-> FALSE] }

\* datetime.strptime(date_str, fmt): the instant, or 0 for ValueError.
strptime(date_str, fmt) ==
    IF date_str.instant = 0 THEN 0
    ELSE IF fmt = "%Y-%m-%d %H:%M:%S %Z"
         THEN IF date_str.zone THEN date_str.instant ELSE 0
         ELSE IF date_str.zone THEN 0 ELSE date_str.instant

parse_date(date_str, now) ==
    IF strptime(date_str, "%Y-%m-%d %H:%M:%S %Z") # 0
    THEN strptime(date_str, "%Y-%m-%d %H:%M:%S %Z")
    ELSE IF strptime(date_str, "%Y-%m-%d %H:%M:%S") # 0
    THEN strptime(date_str, "%Y-%m-%d %H:%M:%S")
    ELSE now

--------------------------------------------------------------------------
(* Stage 1, pure part: the row's reference, extension and file name *)

Urls == {"https://cdn/A.ZIP", "https://cdn/get?id=7"}

MediaTypes == {"Image"}

\* The extension of guess_extension's list the lower-cased url ends with.
UrlSuffix(url_l) == IF url_l = "https://cdn/a.zip" THEN ".zip" ELSE ""

\* "<word>" in media_type, for the lower-cased media types of the model.
Mentions(media_type_l, word) ==
    \/ media_type_l = "image" /\ word = "image"
    \/ media_type_l = "snap video" /\ word \in {"snap", "video"}

guess_extension(media_type, url) ==
    LET mt == lower(media_type)
        url_l == lower(url)
    IN  IF UrlSuffix(url_l) # "" THEN UrlSuffix(url_l)
        ELSE IF Mentions(mt, "zip") THEN ".zip"
        ELSE IF Mentions(mt, "video") THEN ".mp4"
        ELSE IF Mentions(mt, "image") \/ Mentions(mt, "photo")
                \/ Mentions(mt, "snap") THEN ".jpg"
        ELSE ""

\* media_type.replace(" ", "_").lower() or "media"
safe_media_type(media_type) ==
    CASE media_type = "Image" -> "image"
      [] media_type = "Snap Video" -> "snap_video"
      [] media_type = "" -> "media"
      [] OTHER -> lower(media_type)

\* A row's anchor: none, or its onclick attribute (the function it calls and
\* the first quoted argument; fn = "" when the attribute is absent) and its
\* href attribute ("" when absent).
NoAnchor == [a |-> FALSE, fn |-> "", arg |-> "", href |-> ""]

Anchors ==
    {NoAnchor}
    \cup { [a |-> TRUE, fn |-> "downloadMemories", arg |-> u, href |-> "#"]
           : u \in Urls }
    \cup { [a |-> TRUE, fn |-> "alert", arg |-> "x", href |-> u] : u \in Urls }
    \cup { [a |-> TRUE, fn |-> "", arg |-> "", href |-> h] : h \in {"#", ""} }

\* The result is "" for None.
extract_url_from_row(row) ==
    IF ~row.a THEN ""
    ELSE IF row.fn = "downloadMemories" /\ row.arg # "" THEN row.arg
    ELSE IF row.href # "" /\ row.href # "#" THEN row.href
    ELSE ""

\* A file name of the drop directory:
\*   <strftime(ts)>_<mt>_<row><tag><dup><ext>
\* tag is "" or "_merged", dup says whether "_dup" ends the stem.
FileName(ts, mt, row, ext) ==
    [ts |-> ts, mt |-> mt, row |-> row, tag |-> "", dup |-> FALSE, ext |-> ext]

\* Path.with_suffix(".zip")
with_suffix_zip(name) == [name EXCEPT !.ext = ".zip"]

\* MEMORIES_DIR / (zip_path.stem + "_merged.jpg")
MergedName(zip_name) == [zip_name EXCEPT !.tag = "_merged", !.ext = ".jpg"]

\* MEMORIES_DIR / zip_path.stem
FolderName(zip_name) == [zip_name EXCEPT !.ext = ""]

--------------------------------------------------------------------------
(* The file system *)

\* A top-level entry of MEMORIES_DIR.  A file has a body: "raw" (bytes that
\* are no zip container), "zip", "jpeg" (a merged image) or "partial" (a
\* write that an error cut short).  A folder is recorded by what later code
\* reads of it: which media kinds the suffixes of its members have
\* (classify_item), the modification times of its members, and whether
\* every member of the archive it came from was extracted into it.  A
\* folder is empty exactly when stamps is.
File(name, body, mtime) ==
    [name |-> name, kind |-> "file", body |-> body, mtime |-> mtime,
     kinds |-> {}, stamps |-> {}, whole |-> FALSE]

Folder(name, kinds, stamps, whole) ==
    [name |-> name, kind |-> "dir", body |-> "", mtime |-> 0,
     kinds |-> kinds, stamps |-> stamps, whole |-> whole]

\* The media kind of a suffix: child.suffix.lower() in VIDEO_EXTS / IMAGE_EXTS.
MediaKind(ext) ==
    IF lower(ext) \in VIDEO_EXTS THEN "video"
    ELSE IF lower(ext) \in IMAGE_EXTS THEN "image"
    ELSE "other"

Exists(dir, name) == \E e \in dir : e.name = name

Lookup(dir, name) == CHOOSE e \in dir : e.name = name

\* dir with the entry called e.name replaced (or created) by e.
Put(dir, e) == {x \in dir : x.name # e.name} \cup {e}

Remove(dir, name) == {x \in dir : x.name # name}

\* The order of sorted() on the names of the model: the strings differ first
\* in the timestamp, then in the media type, then in the row number, then in
\* what follows it ("" < ".jpg" < ".mp4" < ".zip" < "_merged.jpg").
FormRank(name) ==
    IF name.tag = "_merged" THEN 4
    ELSE CASE name.ext = "" -> 0
           [] name.ext = ".jpg" -> 1
           [] name.ext = ".mp4" -> 2
           [] OTHER -> 3

MtRank(mt) == IF mt = "image" THEN 0 ELSE 1

NameLess(a, b) ==
    \/ a.ts < b.ts
    \/ a.ts = b.ts /\ MtRank(a.mt) < MtRank(b.mt)
    \/ a.ts = b.ts /\ a.mt = b.mt /\ a.row < b.row
    \/ a.ts = b.ts /\ a.mt = b.mt /\ a.row = b.row
          /\ FormRank(a) < FormRank(b)

RECURSIVE sorted(_)
sorted(S) ==
    IF S = {} THEN <<>>
    ELSE LET least == CHOOSE a \in S : \A b \in S \ {a} : NameLess(a, b)
         IN  <<least>> \o sorted(S \ {least})

--------------------------------------------------------------------------
(* Initial state: nothing downloaded, main() not started *)

NoName == FileName(0, "", 0, "")

NoMove == [src |-> NoName, dest |-> NoName, cat |-> "", existed |-> FALSE,
           clobbered |-> FALSE, pass |-> 0]

NoPick == [done |-> FALSE, path |-> "", base |-> NoEntry, overlay |-> NoEntry]

PipeInit ==
    /\ stage = "idle"
    /\ nrows = 0
    /\ k = 1
    /\ queue = <<>>
    /\ drop = {}
    /\ tree = {}
    /\ rowlog = <<>>
    /\ ziplog = <<>>
    /\ lastmove = NoMove
    /\ pass = 0
    /\ runs = 0

Init ==
    /\ PipeInit
    /\ names = <<>>
    /\ picked = NoPick

--------------------------------------------------------------------------
(* main() and stage1_download *)

\* os.utime(path, (ts, ts))
utime(e, ts) == [e EXCEPT !.mtime = ts]

\* What requests.get(url, stream=True) and the read of the body end in:
\* "error" is an exception of get() or raise_for_status(), "broken" a body
\* whose stream raises in iter_content(), "raw" and "zip" a complete body.
Responses == {"error", "broken", "raw", "zip"}

\* main() starts: stage1_download returns at once when the HTML file is
\* missing, else it reads the table's rows.
Start(maxruns, rowcounts) ==
    /\ stage \in {"idle", "done", "aborted"}
    /\ runs < maxruns
    /\ runs' = runs + 1
    /\ \E html \in BOOLEAN, n \in rowcounts :
          /\ nrows' = IF html THEN n ELSE 0
          /\ rowlog' = [i \in 1..(IF html THEN n ELSE 0) |->
                          [st |-> "pending", ts |-> 0, name |-> NoName]]
    /\ stage' = "s1"
    /\ k' = 1
    /\ queue' = <<>>
    /\ ziplog' = <<>>
    /\ lastmove' = NoMove
    /\ pass' = 0
    /\ UNCHANGED <<drop, tree, names, picked>>

\* The file row i is written to, once the body is complete: the write, the
\* utime, and for a zip container the rename to .zip and the rewrite in
\* place (os.replace of the temporary file, then utime).
Saved(dir, name, body, dt, wt) ==
    LET written == Put(dir, utime(File(name, body, wt), dt))
        zipname == IF lower(name.ext) # ".zip" THEN with_suffix_zip(name)
                   ELSE name
    IN  IF body = "zip"
        THEN Put(Remove(written, name), utime(File(zipname, "zip", wt), dt))
        ELSE written

SavedName(name, body) ==
    IF body = "zip" /\ lower(name.ext) # ".zip" THEN with_suffix_zip(name)
    ELSE name

\* One iteration of stage1_download's loop over rows[1:].
Download ==
    /\ stage = "s1"
    /\ k <= nrows
    /\ \/ \* fewer cells than the date and type columns: continue
          /\ rowlog' = [rowlog EXCEPT ![k].st = "nocells"]
          /\ k' = k + 1
          /\ UNCHANGED <<stage, drop>>
       \/ \E row \in Anchors, date_text \in DateTexts, media_type \in MediaTypes,
             resp \in Responses, now \in WallTimes(runs), wt \in WriteTimes :
             LET url == extract_url_from_row(row)
                 dt == parse_date(date_text, now)
                 ext == guess_extension(media_type, url)
                 filename == FileName(dt, safe_media_type(media_type), k, ext)
             IN  \/ /\ url = ""
                    /\ rowlog' = [rowlog EXCEPT ![k].st = "nourl"]
                    /\ k' = k + 1
                    /\ UNCHANGED <<stage, drop>>
                 \/ /\ url # ""
                    /\ resp = "error"
                    /\ rowlog' = [rowlog EXCEPT ![k].st = "fetcherr"]
                    /\ k' = k + 1
                    /\ UNCHANGED <<stage, drop>>
                 \/ \* iter_content raises outside the try: the exception
                    \* leaves stage1_download and main()
                    /\ url # ""
                    /\ resp = "broken"
                    /\ drop' = Put(drop, File(filename, "partial", wt))
                    /\ rowlog' = [rowlog EXCEPT ![k] =
                          [st |-> "broken", ts |-> dt, name |-> filename]]
                    /\ stage' = "aborted"
                    /\ UNCHANGED k
                 \/ /\ url # ""
                    /\ resp \in {"raw", "zip"}
                    /\ drop' = Saved(drop, filename, resp, dt, wt)
                    /\ rowlog' = [rowlog EXCEPT ![k] =
                          [st |-> "saved", ts |-> dt,
                           name |-> SavedName(filename, resp)]]
                    /\ k' = k + 1
                    /\ UNCHANGED stage
    /\ UNCHANGED <<nrows, queue, tree, ziplog, lastmove, pass, runs,
                   names, picked>>

\* stage1_download returns; stage2_merge_and_extract lists the archives:
\* sorted(MEMORIES_DIR.glob("*.zip")).
BeginStage2 ==
    /\ stage = "s1"
    /\ k > nrows
    /\ stage' = "s2"
    /\ queue' = sorted({e.name : e \in {x \in drop : x.name.ext = ".zip"}})
    /\ UNCHANGED <<nrows, k, drop, tree, rowlog, ziplog, lastmove, pass,
                   runs, names, picked>>

--------------------------------------------------------------------------
(* stage2_merge_and_extract *)

\* The entries an archive of the export is downloaded with.
PipeEntries ==
    { Entry("memory_media", ".jpg"), Entry("clip", ".MOV"),
      Entry("notes", ".txt"), [stem |-> "clips", ext |-> "", dir |-> TRUE] }

PipeListings == UNION { [1..n -> PipeEntries] : n \in 0..MaxMembers }

\* The entry list rewrite_zip_in_place leaves in the archive: directory
\* entries dropped, every other entry renamed to
\* <timestamp>_<stem>_<row>_<inner_index><suffix>, inner_index its place in
\* the original list.  The timestamp and the row are those of the archive's
\* own name and hold no letters, so the new name holds "media" exactly when
\* the stem does.
RECURSIVE rewritten_from(_, _)
rewritten_from(infolist, j) ==
    IF j > Len(infolist) THEN <<>>
    ELSE IF infolist[j].dir THEN rewritten_from(infolist, j + 1)
    ELSE <<[stem |-> IF infolist[j].stem = "" THEN "file"
                     ELSE infolist[j].stem,
            ext |-> infolist[j].ext, dir |-> FALSE, inner |-> j]>>
         \o rewritten_from(infolist, j + 1)

rewrite_names(infolist) == rewritten_from(infolist, 1)

\* extract_video_zip_to_folder(zip_path), e the archive's entry.  fault = 0:
\* no error; fault = j in 1..n: z.extract of member j raises.  The result is
\* the drop directory afterwards and whether the call returned ("ok") or
\* raised ("failed").  A member whose extraction raises is not counted among
\* the folder's members.
\* The faulty variant extract_video_unlink_first deletes the archive whether
\* or not the extraction ran to its end.
extract_video_unlink_first(dir, e, ns, fault, wt) ==
    LET members == SelectSeq(ns, LAMBDA m : ~m.dir)
        n == Len(members)
        fname == FolderName(e.name)
        c == IF fault \in 1..n THEN fault - 1 ELSE n
        old == IF Exists(dir, fname) THEN Lookup(dir, fname)
               ELSE Folder(fname, {}, {}, FALSE)
        kinds == {MediaKind(members[j].ext) : j \in 1..c} \ {"other"}
        stamps == IF c > 0 THEN {utime(File(fname, "raw", wt), e.mtime).mtime}
                  ELSE {}
        folder == Folder(fname, old.kinds \cup kinds, old.stamps \cup stamps,
                         c = n)
    IN  IF old.kind = "file"
        THEN [valid |-> fault = 0, dir |-> dir, result |-> "failed"]
        ELSE [valid |-> fault <= n,
              dir |-> Put(Remove(dir, e.name), folder),
              result |-> IF fault = 0 THEN "ok" ELSE "failed"]

extract_video_zip_to_folder(dir, e, ns, fault, wt) ==
    LET members == SelectSeq(ns, LAMBDA m : ~m.dir)
        n == Len(members)
        fname == FolderName(e.name)
        c == IF fault \in 1..n THEN fault - 1 ELSE n
        old == IF Exists(dir, fname) THEN Lookup(dir, fname)
               ELSE Folder(fname, {}, {}, FALSE)
        kinds == {MediaKind(members[j].ext) : j \in 1..c} \ {"other"}
        stamps == IF c > 0 THEN {utime(File(fname, "raw", wt), e.mtime).mtime}
                  ELSE {}
        folder == Folder(fname, old.kinds \cup kinds, old.stamps \cup stamps,
                         c = n)
    IN  IF old.kind = "file"
        THEN \* out_folder.mkdir(exist_ok=True) raises FileExistsError
             [valid |-> fault = 0, dir |-> dir, result |-> "failed"]
        ELSE [valid |-> fault <= n,
              dir |-> IF fault = 0 THEN Put(Remove(dir, e.name), folder)
                      ELSE Put(dir, folder),
              result |-> IF fault = 0 THEN "ok" ELSE "failed"]

\* merge_image_zip(zip_path).  fault = 0: no error; 1: reading, decoding or
\* saving raises before the output file is written.  "skipped" is the
\* return at "No base image found".  The faulty variant
\* merge_image_zip_unlink_on_skip deletes the archive on that return.
merge_image_zip_unlink_on_skip(dir, e, ns, fault, wt) ==
    LET sel == pick_base_and_overlay(ns)
        merged == utime(File(MergedName(e.name), "jpeg", wt), e.mtime)
    IN  IF sel.base = NoEntry
        THEN [valid |-> fault = 0, dir |-> Remove(dir, e.name),
              result |-> "skipped"]
        ELSE [valid |-> fault <= 1,
              dir |-> IF fault = 0 THEN Put(Remove(dir, e.name), merged)
                      ELSE dir,
              result |-> IF fault = 0 THEN "ok" ELSE "failed"]

merge_image_zip(dir, e, ns, fault, wt) ==
    LET sel == pick_base_and_overlay(ns)
        merged == utime(File(MergedName(e.name), "jpeg", wt), e.mtime)
    IN  IF sel.base = NoEntry
        THEN [valid |-> fault = 0, dir |-> dir, result |-> "skipped"]
        ELSE [valid |-> fault <= 1,
              dir |-> IF fault = 0 THEN Put(Remove(dir, e.name), merged)
                      ELSE dir,
              result |-> IF fault = 0 THEN "ok" ELSE "failed"]

\* The archives still to visit once one archive is done: the try / except
\* lies inside the for loop, so an exception ends that iteration only.  The
\* faulty variant remaining_after_abort has the exception end the loop.
remaining_after_abort(q, raised) == IF raised THEN <<>> ELSE Tail(q)

remaining_after(q, raised) == Tail(q)

\* What names = z.namelist() held when stage 2 opened the archive.
ListingKind(ns) ==
    IF \E j \in 1..Len(ns) : lower(ns[j].ext) \in VIDEO_EXTS THEN "video"
    ELSE IF ns = <<>> THEN "empty"
    ELSE IF \E j \in 1..Len(ns) : lower(ns[j].ext) \in IMAGE_EXTS THEN "image"
    ELSE "noimage"

\* What stage 2 did with an archive: what its entry list held ("unreadable"
\* when the container could not be opened) and how the iteration ended:
\* "ok" (the branch returned after the unlink), "skipped" (merge_image_zip
\* returned at "No base image found") or "failed" (an exception reached the
\* except clause).
ZipRecord(name, listing, result) ==
    [name |-> name, listing |-> listing, result |-> result]

\* One iteration of stage2_merge_and_extract's loop over zip_files.
Resolve ==
    /\ stage = "s2"
    /\ queue # <<>>
    /\ LET e == Lookup(drop, Head(queue))
       IN  \/ \* zipfile.ZipFile(zip_path) raises BadZipFile
              /\ e.body # "zip"
              /\ ziplog' = Append(ziplog,
                              ZipRecord(e.name, "unreadable", "failed"))
              /\ queue' = remaining_after(queue, TRUE)
              /\ UNCHANGED drop
           \/ /\ e.body = "zip"
              /\ \E infolist \in PipeListings, fault \in 0..MaxMembers,
                    wt \in WriteTimes :
                    LET ns == rewrite_names(infolist)
                        r == IF has_video(ns)
                             THEN extract_video_zip_to_folder(
                                      drop, e, ns, fault, wt)
                             ELSE merge_image_zip(drop, e, ns, fault, wt)
                    IN  /\ r.valid
                        /\ drop' = r.dir
                        /\ ziplog' = Append(ziplog,
                              ZipRecord(e.name, ListingKind(ns), r.result))
                        /\ queue' = remaining_after(queue, r.result = "failed")
    /\ UNCHANGED <<stage, nrows, k, tree, rowlog, lastmove, pass, runs,
                   names, picked>>

--------------------------------------------------------------------------
(* stage3_organize *)

\* An item of MEMORIES_DIR.iterdir(): a year folder an earlier move created
\* (year > 0: its name is f"{dt.year:04d}") or an entry of drop.
YearItem(y) == [isdir |-> TRUE, year |-> y, name |-> NoName]

EntryItem(e) == [isdir |-> e.kind = "dir", year |-> 0, name |-> e.name]

\* p.name.isdigit(): a year folder's name is digits; every other name of the
\* model holds "-" and "_".
NameIsDigit(it) == it.year > 0

\* len(p.name): ":04d" pads the year to four digits; every other name starts
\* with the 19 characters of the timestamp.
NameLen(it) ==
    IF it.year > 0 THEN (IF it.year < 10000 THEN 4 ELSE 5) ELSE 19

is_year_folder(it) == it.isdir /\ NameIsDigit(it) /\ NameLen(it) = 4

\* item.name.startswith("."): no name of the model does.
IsHidden(it) == FALSE

\* name[:10] parses as a date for every name stage 1 and stage 2 make: the
\* name starts with strftime('%Y-%m-%d_%H-%M-%S') of its timestamp.  The
\* modification time is the fallback for a name that does not.
StartsWithDate(name) == name.ts # 0

get_target_date(e) ==
    IF StartsWithDate(e.name) THEN DateOf(e.name.ts) ELSE DateOf(e.mtime)

\* classify_item(path).  The faulty variant classify_item_image_first
\* lets an image among a folder's members win over a video.
classify_item_image_first(e) ==
    IF e.kind = "file"
    THEN IF lower(e.name.ext) \in IMAGE_EXTS THEN "images"
         ELSE IF lower(e.name.ext) \in VIDEO_EXTS THEN "videos"
         ELSE "other"
    ELSE IF "image" \in e.kinds THEN "images"
         ELSE IF "video" \in e.kinds THEN "videos"
         ELSE "other"

classify_item(e) ==
    IF e.kind = "file"
    THEN IF lower(e.name.ext) \in IMAGE_EXTS THEN "images"
         ELSE IF lower(e.name.ext) \in VIDEO_EXTS THEN "videos"
         ELSE "other"
    ELSE IF "video" \in e.kinds THEN "videos"
         ELSE IF "image" \in e.kinds THEN "images"
         ELSE "other"

\* dest_root / f"{stem}_dup{suffix}"
DupName(name) == [name EXCEPT !.dup = TRUE]

Placed(e, d, cat, name) ==
    [year |-> d.year, month |-> d.month, cat |-> cat, name |-> name,
     kind |-> e.kind, body |-> e.body, mtime |-> e.mtime,
     kinds |-> e.kinds, stamps |-> e.stamps, whole |-> e.whole]

At(t, d, cat, name) ==
    {x \in t : x.year = d.year /\ x.month = d.month /\ x.cat = cat
               /\ x.name = name}

\* item.rename(dest) takes the entry out of the drop directory.  The faulty
\* variant source_kept copies instead of moving.
source_kept(dir, name) == dir

source_after_rename(dir, name) == Remove(dir, name)

\* stage3_organize lists the media root: items = list(MEMORIES_DIR.iterdir()).
\* iterdir() gives no order; the model takes the year folders first and the
\* other entries sorted.  The entries of one listing have different names
\* and so different destinations, and a move reads only the tree below its
\* own destination, so the order does not change what a pass leaves.
Listing ==
    sorted({e.name : e \in drop})

ItemsOf(q) == [j \in 1..Len(q) |-> EntryItem(Lookup(drop, q[j]))]

RECURSIVE SeqOfYears(_)
SeqOfYears(Y) ==
    IF Y = {} THEN <<>>
    ELSE LET y == CHOOSE a \in Y : \A b \in Y : a <= b
         IN  <<YearItem(y)>> \o SeqOfYears(Y \ {y})

BeginStage3 ==
    /\ stage = "s2"
    /\ queue = <<>>
    /\ stage' = "s3"
    /\ pass' = pass + 1
    /\ queue' = SeqOfYears({x.year : x \in tree}) \o ItemsOf(Listing)
    /\ UNCHANGED <<nrows, k, drop, tree, rowlog, ziplog, lastmove, runs,
                   names, picked>>

\* stage3_organize is run once more over the tree a complete pass left.
Reorganize ==
    /\ stage = "done"
    /\ pass = 1
    /\ stage' = "s3"
    /\ pass' = pass + 1
    /\ queue' = SeqOfYears({x.year : x \in tree}) \o ItemsOf(Listing)
    /\ UNCHANGED <<nrows, k, drop, tree, rowlog, ziplog, lastmove, runs,
                   names, picked>>

\* One iteration of stage3_organize's loop over items.  Path.rename replaces
\* a file by a file and an empty folder by a folder; onto anything else that
\* exists it raises, and nothing catches that.
Organize ==
    /\ stage = "s3"
    /\ queue # <<>>
    /\ LET it == Head(queue)
       IN  IF is_year_folder(it) \/ IsHidden(it)
           THEN /\ queue' = Tail(queue)
                /\ UNCHANGED <<stage, drop, tree, lastmove>>
           ELSE LET e == Lookup(drop, it.name)
                    d == get_target_date(e)
                    cat == classify_item(e)
                    existed == At(tree, d, cat, e.name) # {}
                    final == IF existed THEN DupName(e.name) ELSE e.name
                    target == At(tree, d, cat, final)
                    raises ==
                        \E x \in target :
                            ~ \/ e.kind = "file" /\ x.kind = "file"
                              \/ e.kind = "dir" /\ x.kind = "dir"
                                    /\ x.stamps = {}
                IN  IF raises
                    THEN /\ stage' = "aborted"
                         /\ UNCHANGED <<queue, drop, tree, lastmove>>
                    ELSE /\ tree' = (tree \ target)
                                      \cup {Placed(e, d, cat, final)}
                         /\ drop' = source_after_rename(drop, e.name)
                         /\ lastmove' = [src |-> e.name, dest |-> final,
                                         cat |-> cat, existed |-> existed,
                                         clobbered |-> target # {},
                                         pass |-> pass]
                         /\ queue' = Tail(queue)
                         /\ UNCHANGED stage
    /\ UNCHANGED <<nrows, k, rowlog, ziplog, pass, runs, names, picked>>

EndStage3 ==
    /\ stage = "s3"
    /\ queue = <<>>
    /\ stage' = "done"
    /\ UNCHANGED <<nrows, k, queue, drop, tree, rowlog, ziplog, lastmove,
                   pass, runs, names, picked>>

--------------------------------------------------------------------------
(* Specifications *)

\* main() is run once on an empty media root.
MainOnce == Start(1, 0..MaxRows)

Next ==
    \/ MainOnce
    \/ Download
    \/ BeginStage2
    \/ Resolve
    \/ BeginStage3
    \/ Organize
    \/ EndStage3
    \/ Reorganize

Spec == Init /\ [][Next]_vars

\* main() is run again and again on exports of one row: the names the rows
\* are given repeat from run to run.
MainAgain == Start(MaxRuns, {1})

NextRerun ==
    \/ MainAgain
    \/ Download
    \/ BeginStage2
    \/ Resolve
    \/ BeginStage3
    \/ Organize
    \/ EndStage3

SpecRerun == Init /\ [][NextRerun]_vars

--------------------------------------------------------------------------
(* Classification and selection on their own: every entry list of up to    *)
(* MaxNames names is classified and searched for a base and an overlay.    *)

PureNames ==
    { Entry("memory_media", ".jpg"), Entry("MEDIA", ".PNG"),
      Entry("photo", ".JPG"), Entry("overlay", ".png"),
      Entry("sticker", ".PNG"), Entry("clip", ".MOV"),
      Entry("media_clip", ".mp4"), Entry("notes", ".txt") }

InitArchive ==
    /\ PipeInit
    /\ names \in UNION { [1..n -> PureNames] : n \in 0..MaxNames }
    /\ picked = NoPick

\* names = z.namelist(); has_video = any(...); pick_base_and_overlay(names)
Classify ==
    /\ ~picked.done
    /\ picked' = [done |-> TRUE, path |-> ArchivePath(names),
                  base |-> pick_base_and_overlay(names).base,
                  overlay |-> pick_base_and_overlay(names).overlay]
    /\ UNCHANGED <<pipevars, names>>

NextArchive == Classify

SpecArchive == InitArchive /\ [][NextArchive]_vars

--------------------------------------------------------------------------
(* Properties of classification and selection (SpecArchive) *)

\* The places of names that hold an image entry.
ImagePlaces == {j \in 1..Len(names) : lower(names[j].ext) \in IMAGE_EXTS}

\* The entry at the least place of a non-empty set of places.
FirstAt(P) == names[CHOOSE j \in P : \A h \in P : j <= h]

\* C8: an entry list takes the video path exactly when some entry's
\* extension is a video extension, wherever that entry stands and however
\* many image entries there are; every other list, one without any image
\* included, takes the image path.
VideoPathIffSomeVideoEntry ==
    picked.done =>
        /\ picked.path \in {"video", "image"}
        /\ picked.path = "video" <=>
              \E j \in 1..Len(names) : lower(names[j].ext) \in VIDEO_EXTS

\* A list whose video entry comes last, after two image entries, took the
\* video path.
VideoPathIffSomeVideoEntryWitness ==
    /\ picked.done
    /\ picked.path = "video"
    /\ Len(names) = 3
    /\ lower(names[1].ext) \in IMAGE_EXTS
    /\ lower(names[2].ext) \in IMAGE_EXTS
    /\ lower(names[3].ext) \in VIDEO_EXTS

\* C9: the base is the first image entry whose name holds "media" in any
\* case, else the first image entry that is no PNG, else the first image
\* entry; there is no base only when there is no image entry.  The overlay
\* is the first PNG image entry whose name is not the base's, absent when
\* there is none, and never the base.
BaseAndOverlayAsSpecified ==
    picked.done =>
        LET withMedia == {j \in ImagePlaces : lower(names[j].stem) \in HoldsMedia}
            notPng == {j \in ImagePlaces : lower(names[j].ext) # ".png"}
            pngs == {j \in ImagePlaces : /\ lower(names[j].ext) = ".png"
                                         /\ names[j] # picked.base}
        IN  /\ picked.base =
                  IF withMedia # {} THEN FirstAt(withMedia)
                  ELSE IF notPng # {} THEN FirstAt(notPng)
                  ELSE IF ImagePlaces # {} THEN FirstAt(ImagePlaces)
                  ELSE NoEntry
            /\ picked.base = NoEntry <=> ImagePlaces = {}
            /\ picked.overlay = IF picked.base # NoEntry /\ pngs # {}
                                THEN FirstAt(pngs) ELSE NoEntry
            /\ picked.base # NoEntry => picked.overlay # picked.base

\* An archive of PNG images only: the first is the base, and the overlay is
\* the third entry because the second carries the base's name.
BaseAndOverlayAsSpecifiedWitness ==
    /\ picked.done
    /\ Len(names) = 3
    /\ \A j \in 1..3 : lower(names[j].ext) = ".png"
    /\ lower(names[1].stem) \notin HoldsMedia
    /\ names[2] = names[1]
    /\ names[3] # names[1]
    /\ picked.base = names[1]
    /\ picked.overlay = names[3]

--------------------------------------------------------------------------
(* Properties of stage 2 (Spec) *)

\* The archives stage 1 saved in this run; on a media root that was empty
\* they are what sorted(MEMORIES_DIR.glob("*.zip")) lists.
Archives ==
    {rowlog[i].name : i \in {j \in 1..Len(rowlog) :
                               /\ rowlog[j].st = "saved"
                               /\ rowlog[j].name.ext = ".zip"}}

\* An entry of that name is in the drop directory or in the organized tree.
OnDisk(name) == Exists(drop, name) \/ \E x \in tree : x.name = name

\* The output derived from archive zn is there in full: the merged JPEG, or
\* the folder with every member that is no directory.
Derived(zn) ==
    \/ \E e \in drop : \/ e.name = MergedName(zn) /\ e.body = "jpeg"
                       \/ e.name = FolderName(zn) /\ e.kind = "dir" /\ e.whole
    \/ \E x \in tree : \/ x.name = MergedName(zn) /\ x.body = "jpeg"
                       \/ x.name = FolderName(zn) /\ x.kind = "dir" /\ x.whole

\* The names of the archives stage 2 has visited, in the order of the visits.
Visited == [j \in 1..Len(ziplog) |-> ziplog[j].name]

\* C1: an archive stage 2 has handled is still on disk exactly when its
\* resolution did not complete ("ok"), and in every state an archive that
\* is gone has its derived output there in full.
ArchiveDeletionSafety ==
    /\ \A zn \in Archives : ~OnDisk(zn) => Derived(zn)
    /\ \A j \in 1..Len(ziplog) :
          OnDisk(ziplog[j].name) <=> ziplog[j].result # "ok"

\* Stage 2 has ended: the first archive, a video bundle, was extracted in
\* full and deleted; the second failed at its second member and is kept
\* beside the folder that holds its first member.
ArchiveDeletionSafetyWitness ==
    /\ stage = "s2"
    /\ queue = <<>>
    /\ Len(ziplog) = 2
    /\ ziplog[1].listing = "video" /\ ziplog[1].result = "ok"
    /\ ~Exists(drop, ziplog[1].name)
    /\ ziplog[2].listing = "video" /\ ziplog[2].result = "failed"
    /\ Exists(drop, ziplog[2].name)
    /\ \E e \in drop : /\ e.name = FolderName(ziplog[2].name)
                       /\ e.stamps # {} /\ ~e.whole

\* C3: an archive whose resolution failed is left in place as it was, and
\* the archives after it in the sorted listing are visited all the same:
\* the visited archives followed by the ones to come are always the whole
\* listing, and every archive that did not fail has the outcome of its own
\* entry list.
ErrorIsolation ==
    /\ stage = "s2" => Visited \o queue = sorted(Archives)
    /\ stage \in {"s3", "done"} => Visited = sorted(Archives)
    /\ \A j \in 1..Len(ziplog) :
          LET z == ziplog[j]
          IN  /\ z.result = "failed" =>
                    /\ OnDisk(z.name)
                    /\ stage = "s2" =>
                          /\ Lookup(drop, z.name).mtime = rowlog[z.name.row].ts
                          /\ Lookup(drop, z.name).body \in {"zip", "raw"}
                          /\ ~Exists(drop, MergedName(z.name))
              /\ z.result = "ok" => ~OnDisk(z.name) /\ Derived(z.name)
              /\ z.result = "skipped" => z.listing \in {"empty", "noimage"}
              /\ z.listing = "unreadable" => z.result = "failed"

\* The first archive failed during extraction, the second was resolved.
ErrorIsolationWitness ==
    /\ stage = "s2"
    /\ queue = <<>>
    /\ Len(ziplog) = 2
    /\ ziplog[1].listing = "video" /\ ziplog[1].result = "failed"
    /\ ziplog[2].listing = "image" /\ ziplog[2].result = "ok"
    /\ Exists(drop, MergedName(ziplog[2].name))

\* C10: an archive without a video entry that has no entry at all, or no
\* image entry, gives no output in the drop directory and stays on disk as
\* it was, and stage 2 goes on to the archives after it.
NoBaseImageSkip ==
    /\ stage = "s2" => Len(ziplog) + Len(queue) = Cardinality(Archives)
    /\ \A j \in 1..Len(ziplog) :
          LET z == ziplog[j]
          IN  z.listing \in {"empty", "noimage"} =>
                 /\ z.result = "skipped"
                 /\ OnDisk(z.name)
                 /\ stage = "s2" =>
                       Lookup(drop, z.name) =
                          File(z.name, "zip", rowlog[z.name.row].ts)
                 /\ ~OnDisk(MergedName(z.name))
                 /\ ~OnDisk(FolderName(z.name))

\* An archive without entries was skipped, then one whose entries are no
\* images was visited and skipped too; both are still in the drop directory.
NoBaseImageSkipWitness ==
    /\ stage = "s2"
    /\ queue = <<>>
    /\ Len(ziplog) = 2
    /\ ziplog[1].listing = "empty" /\ ziplog[1].result = "skipped"
    /\ ziplog[2].listing = "noimage" /\ ziplog[2].result = "skipped"
    /\ Exists(drop, ziplog[1].name) /\ Exists(drop, ziplog[2].name)

--------------------------------------------------------------------------
(* Properties of stage 1 and of the modification times (Spec) *)

\* The resolved timestamp of the row an entry's name carries.
RowTime(name) == rowlog[name.row].ts

\* The modification times an entry shows: its own for a file, those of its
\* members for a folder.
Mtimes(e) == IF e.kind = "file" THEN {e.mtime} ELSE e.stamps

\* C7: a row without a usable reference, or whose fetch fails, leaves no
\* file in the drop directory and never ends the run; the rows after it are
\* still processed; a row that was fetched has exactly one file, named
\* <timestamp>_<mediatype>_<rownum><ext>.
SkipAndContinue ==
    /\ ~(stage = "aborted" /\ k <= nrows)
    /\ \A i \in 1..Len(rowlog) :
          /\ rowlog[i].st \in {"nourl", "fetcherr", "broken"} =>
                \A e \in drop : e.name.row # i
          /\ rowlog[i].st = "saved" /\ stage = "s1" =>
                /\ {e.name : e \in {x \in drop : x.name.row = i}}
                      = {rowlog[i].name}
                /\ rowlog[i].name \in
                      {FileName(rowlog[i].ts, "image", i, x)
                          : x \in {".jpg", ".zip"}}

\* C4: every file stage 1 or stage 2 left, and every member of an extracted
\* folder, has as its modification time the resolved timestamp of the row
\* it comes from, never the time it was written at.
TimestampPropagation ==
    /\ \A e \in drop : Mtimes(e) \subseteq {RowTime(e.name)}
    /\ \A x \in tree : Mtimes(x) \subseteq {RowTime(x.name)}

\* The part of timestamp propagation that holds: every file whose write ran
\* to its end, and every extracted member, carries its row's timestamp.
TimestampPropagationOfCompleteWrites ==
    /\ \A e \in drop : e.body # "partial" =>
                          Mtimes(e) \subseteq {RowTime(e.name)}
    /\ \A x \in tree : Mtimes(x) \subseteq {RowTime(x.name)}

--------------------------------------------------------------------------
(* Properties of stage 3 (Spec, SpecRerun) *)

\* The entries of the organized tree that come from row i.
OfRow(i) == {x \in tree : x.name.row = i}

\* C6: once the three stages have run on a fresh media root, every archive
\* that was fetched and resolved is one entry of the tree, under the year
\* and the month of its row's timestamp: images/<stem>_merged.jpg for an
\* image archive, the folder videos/<stem> for a video archive; nothing of
\* the row is left in the drop directory.
EndToEndLayout ==
    stage = "done" =>
        \A j \in 1..Len(ziplog) :
            LET z == ziplog[j]
                i == z.name.row
                d == DateOf(rowlog[i].ts)
                stem == FileName(rowlog[i].ts, "image", i, "")
            IN  z.result = "ok" =>
                   /\ z.name = with_suffix_zip(stem)
                   /\ \A e \in drop : e.name.row # i
                   /\ Cardinality(OfRow(i)) = 1
                   /\ \A x \in OfRow(i) :
                         /\ x.year = d.year /\ x.month = d.month
                         /\ IF z.listing = "video"
                            THEN /\ x.cat = "videos"
                                 /\ x.kind = "dir"
                                 /\ x.name = stem
                            ELSE /\ x.cat = "images"
                                 /\ x.kind = "file"
                                 /\ x.name = MergedName(stem)

\* A run that resolved an image archive of 2023 and a video bundle with an
\* image beside the clip, dated by the clock because its row's date did not
\* parse.
EndToEndLayoutWitness ==
    /\ stage = "done"
    /\ pass = 1
    /\ Len(ziplog) = 2
    /\ ziplog[1].listing = "image" /\ ziplog[1].result = "ok"
    /\ ziplog[2].listing = "video" /\ ziplog[2].result = "ok"
    /\ \E x \in tree : x.year = 2023 /\ x.cat = "images" /\ x.name.tag = "_merged"
    /\ \E x \in tree : /\ x.year = 2026 /\ x.cat = "videos"
                       /\ x.kinds = {"image", "video"}

\* C5: after a complete pass of stage3_organize nothing that pass handled
\* is left at top level, an unresolved archive included: the listing of a
\* second pass holds year folders only, and the second pass moves nothing
\* and leaves the tree as it was.
ReorganizeMovesNothing ==
    /\ [](/\ stage = "done" => drop = {}
          /\ pass = 2 => /\ lastmove.pass < 2
                         /\ \A j \in 1..Len(queue) : is_year_folder(queue[j]))
    /\ [][pass' = 2 => tree' = tree /\ drop' = drop]_vars

\* A second pass has ended over a tree that holds an archive stage 2 could
\* not resolve beside a merged image.
ReorganizeMovesNothingWitness ==
    /\ stage = "done"
    /\ pass = 2
    /\ \E x \in tree : x.name.ext = ".zip" /\ x.cat = "other"
    /\ \E x \in tree : x.name.tag = "_merged"

\* C2: a move whose destination exists ends under a name with "_dup", and no
\* move replaces an entry that is already there, the entry <stem>_dup<suffix>
\* included.
CollisionSafety ==
    /\ lastmove.existed => lastmove.dest.dup
    /\ ~lastmove.clobbered

==========================================================================
